---- MODULE Spec2Model ----
(***************************************************************************)
(* State machine of src/src/components/BettingDashboard.tsx: the React     *)
(* component state (players, selectedPlayer, newPlayer, newEarning,        *)
(* showAllPlayers), its event handlers and the values it derives on each   *)
(* render (dashboard stats, win rate, all-players chart data).             *)
(*                                                                         *)
(* JavaScript strings are sequences of one-character strings, so that      *)
(* trim, toLowerCase, parseFloat, template literals and the default sort   *)
(* order are computed rather than assumed.  JavaScript numbers are exact   *)
(* decimals [m, e] standing for m * 10^(-e); NaN is a value of its own.    *)
(* The typed strings range over the alphabet of NameInputs and             *)
(* AmountInputs, which has no exponent letter and no "Infinity", so every  *)
(* number that occurs is finite; binary rounding of IEEE doubles is not    *)
(* represented.                                                            *)
(*                                                                         *)
(* The two text fields (newPlayer, newEarning) are the parameters of the   *)
(* handlers: a handler reads what was typed into its field before the      *)
(* click, so the field's content is the handler's input and the clearing   *)
(* of the field on success is not kept as state.  toast is the             *)
(* notification raised by the last event (NoToast when it raised none).    *)
(* The handlers are taken as callable in every state, which includes the   *)
(* states in which the form that triggers them is rendered.                *)
(***************************************************************************)
EXTENDS Integers, Sequences, FiniteSets, TLC

VARIABLES players, selectedPlayer, showAllPlayers, toast

vars == <<players, selectedPlayer, showAllPlayers, toast>>

\* The ledger: the state without the notification raised by the last event.
ledger == <<players, selectedPlayer, showAllPlayers>>

(***************************************************************************)
(* Bounds                                                                  *)
(***************************************************************************)
MaxPlayers == 3
MaxEntries == 3

(***************************************************************************)
(* Strings                                                                 *)
(***************************************************************************)
Digit == {"0", "1", "2", "3", "4", "5", "6", "7", "8", "9"}

DigitVal(c) ==
  CASE c = "0" -> 0 [] c = "1" -> 1 [] c = "2" -> 2 [] c = "3" -> 3
    [] c = "4" -> 4 [] c = "5" -> 5 [] c = "6" -> 6 [] c = "7" -> 7
    [] c = "8" -> 8 [] c = "9" -> 9

DigitChar(d) == <<"0", "1", "2", "3", "4", "5", "6", "7", "8", "9">>[d + 1]

\* UTF-16 code unit of a character (String.prototype.sort compares these).
CharCode(c) ==
  CASE c = " " -> 32 [] c = "+" -> 43 [] c = "-" -> 45 [] c = "." -> 46
    [] c \in Digit -> 48 + DigitVal(c)
    [] c = "A" -> 65 [] c = "B" -> 66 [] c = "T" -> 84
    [] c = "a" -> 97 [] c = "b" -> 98 [] c = "c" -> 99 [] c = "e" -> 101
    [] c = "h" -> 104 [] c = "i" -> 105 [] c = "k" -> 107 [] c = "m" -> 109
    [] c = "t" -> 116

IsWhiteSpace(c) == c = " "

RECURSIVE TrimStart(_)
TrimStart(s) ==
  IF s # <<>> /\ IsWhiteSpace(Head(s)) THEN TrimStart(Tail(s)) ELSE s

RECURSIVE TrimEnd(_)
TrimEnd(s) ==
  IF s # <<>> /\ IsWhiteSpace(s[Len(s)])
  THEN TrimEnd(SubSeq(s, 1, Len(s) - 1))
  ELSE s

\* String.prototype.trim
trim(s) == TrimEnd(TrimStart(s))

LowerChar(c) == CASE c = "A" -> "a" [] c = "B" -> "b" [] c = "T" -> "t" [] OTHER -> c

\* String.prototype.toLowerCase
toLowerCase(s) == [i \in 1..Len(s) |-> LowerChar(s[i])]

\* s < t in the order of Array.prototype.sort() without a comparator.
RECURSIVE StrLess(_, _)
StrLess(s, t) ==
  IF t = <<>> THEN FALSE
  ELSE IF s = <<>> THEN TRUE
  ELSE IF Head(s) = Head(t) THEN StrLess(Tail(s), Tail(t))
  ELSE CharCode(Head(s)) < CharCode(Head(t))

\* Number-to-string of a positive integer, as a template literal does it.
RECURSIVE NumberToString(_)
NumberToString(n) ==
  IF n < 10 THEN <<DigitChar(n)>> ELSE NumberToString(n \div 10) \o <<DigitChar(n % 10)>>

(***************************************************************************)
(* Numbers                                                                 *)
(***************************************************************************)
NaN == [nan |-> TRUE]

isNaN(x) == x = NaN

RECURSIVE Pow10(_)
Pow10(n) == IF n = 0 THEN 1 ELSE 10 * Pow10(n - 1)

\* Canonical form of m * 10^(-e): no trailing zero in the fraction.
RECURSIVE Normalize(_, _)
Normalize(m, e) ==
  IF e > 0 /\ m % 10 = 0 THEN Normalize(m \div 10, e - 1) ELSE [m |-> m, e |-> e]

Zero == [m |-> 0, e |-> 0]

\* x + y on numbers
Plus(x, y) ==
  IF isNaN(x) \/ isNaN(y) THEN NaN
  ELSE LET e == IF x.e > y.e THEN x.e ELSE y.e
       IN  Normalize(x.m * Pow10(e - x.e) + y.m * Pow10(e - y.e), e)

\* x > 0 on numbers (false for NaN)
Positive(x) == ~isNaN(x) /\ x.m > 0

\* The longest prefix of s made of decimal digits.
RECURSIVE DigitPrefix(_)
DigitPrefix(s) ==
  IF s # <<>> /\ Head(s) \in Digit THEN <<Head(s)>> \o DigitPrefix(Tail(s)) ELSE <<>>

\* The value of a digit string read as a decimal integer (0 when empty).
RECURSIVE DigitsValue(_)
DigitsValue(d) ==
  IF d = <<>> THEN 0 ELSE 10 * DigitsValue(SubSeq(d, 1, Len(d) - 1)) + DigitVal(d[Len(d)])

Drop(s, n) == SubSeq(s, n + 1, Len(s))

\* The global parseFloat: leading white space is skipped, then the longest
\* prefix that is a decimal literal (sign, integer digits, "." and fraction
\* digits) is converted and whatever follows it is ignored; NaN when no
\* prefix is a decimal literal.
parseFloat(str) ==
  LET t      == TrimStart(str)
      signed == t # <<>> /\ Head(t) \in {"+", "-"}
      sign   == IF signed /\ Head(t) = "-" THEN -1 ELSE 1
      u      == IF signed THEN Tail(t) ELSE t
      int    == DigitPrefix(u)
      r      == Drop(u, Len(int))
      frac   == IF r # <<>> /\ Head(r) = "." THEN DigitPrefix(Tail(r)) ELSE <<>>
  IN  IF int = <<>> /\ frac = <<>> THEN NaN
      ELSE Normalize(sign * (DigitsValue(int) * Pow10(Len(frac)) + DigitsValue(frac)),
                     Len(frac))

(***************************************************************************)
(* Records                                                                 *)
(***************************************************************************)
\* The null reference (selectedPlayer, and "no data" in a chart row).
NULL == [null |-> TRUE]

\* The locale date string of the session's day.
Today == <<"t", "o", "d", "a", "y">>

\* interface Earning
Earning(match, amount, total, date) ==
  [match |-> match, amount |-> amount, total |-> total, date |-> date]

\* interface Player
Player(name, earnings, totalEarnings) ==
  [name |-> name, earnings |-> earnings, totalEarnings |-> totalEarnings]

\* A call of toast(): its title and variant.  The description is text
\* interpolated from the same inputs and is left to the presentation.
Toast(title, variant) == [title |-> title, variant |-> variant]

\* No notification was raised by the last event.
NoToast == Toast("none", "none")

(***************************************************************************)
(* What the user can type                                                  *)
(***************************************************************************)
NameInputs ==
  { <<>>, <<" ">>, <<"A">>, <<"a">>, <<" ", "A">>, <<"B">> }

AmountInputs ==
  { <<>>, <<"a", "b", "c">>, <<"1", ".", "2">>, <<"-", "1", ".", "2">>,
    <<"1", ".", "2", ".", "3">>, <<"1", ".", "2", "a", "b", "c">> }

(***************************************************************************)
(* State after the first render                                            *)
(***************************************************************************)
Init ==
  /\ players = <<>>
  /\ selectedPlayer = NULL
  /\ showAllPlayers = FALSE
  /\ toast = NoToast

\* Number of earnings held by the whole roster.
RECURSIVE Entries(_)
Entries(ps) == IF ps = <<>> THEN 0 ELSE Len(Head(ps).earnings) + Entries(Tail(ps))

\* players.some(p => p.name.toLowerCase() === newPlayer.toLowerCase())
NameTaken(ps, newPlayer) ==
  \E i \in 1..Len(ps) : toLowerCase(ps[i].name) = toLowerCase(newPlayer)

\* handleAddPlayer putting the new player in front: [newPlayerObj, ...players]
HandleAddPlayer_Prepends(newPlayer) ==
  IF trim(newPlayer) = <<>>
  THEN /\ toast' = Toast("Invalid Input", "destructive")
       /\ UNCHANGED <<players, selectedPlayer, showAllPlayers>>
  ELSE IF NameTaken(players, newPlayer)
  THEN /\ toast' = Toast("Player Exists", "destructive")
       /\ UNCHANGED <<players, selectedPlayer, showAllPlayers>>
  ELSE /\ Len(players) < MaxPlayers
       /\ players' = <<Player(trim(newPlayer), <<>>, Zero)>> \o players
       /\ toast' = Toast("Player Added", "default")
       /\ UNCHANGED <<selectedPlayer, showAllPlayers>>

\* handleAddPlayer, newPlayer being the content of the name field
HandleAddPlayer(newPlayer) ==
  IF trim(newPlayer) = <<>>
  THEN /\ toast' = Toast("Invalid Input", "destructive")
       /\ UNCHANGED <<players, selectedPlayer, showAllPlayers>>
  ELSE IF NameTaken(players, newPlayer)
  THEN /\ toast' = Toast("Player Exists", "destructive")
       /\ UNCHANGED <<players, selectedPlayer, showAllPlayers>>
  ELSE /\ Len(players) < MaxPlayers
       /\ players' = Append(players, Player(trim(newPlayer), <<>>, Zero))
       /\ toast' = Toast("Player Added", "default")
       /\ UNCHANGED <<selectedPlayer, showAllPlayers>>

\* The label of a player's next earning: `Ticket ${player.earnings.length + 1}`
TicketLabel(n) == <<"T", "i", "c", "k", "e", "t", " ">> \o NumberToString(n)

\* UpdatePlayer with the player's totalEarnings left as it was.
UpdatePlayer_TotalNotStored(player, selName, amount) ==
  IF player.name = selName
  THEN LET newTotal == Plus(player.totalEarnings, amount)
           newEarningEntry ==
             Earning(TicketLabel(Len(player.earnings) + 1), amount, newTotal, Today)
       IN  Player(player.name, Append(player.earnings, newEarningEntry),
                  player.totalEarnings)
  ELSE player

\* UpdatePlayer with the entry's total taken before the amount is added.
UpdatePlayer_EntryTotalBefore(player, selName, amount) ==
  IF player.name = selName
  THEN LET newTotal == Plus(player.totalEarnings, amount)
           newEarningEntry ==
             Earning(TicketLabel(Len(player.earnings) + 1), amount,
                     player.totalEarnings, Today)
       IN  Player(player.name, Append(player.earnings, newEarningEntry), newTotal)
  ELSE player

\* UpdatePlayer with the label numbered from the length before the append.
UpdatePlayer_LabelFromLength(player, selName, amount) ==
  IF player.name = selName
  THEN LET newTotal == Plus(player.totalEarnings, amount)
           newEarningEntry ==
             Earning(TicketLabel(Len(player.earnings)), amount, newTotal, Today)
       IN  Player(player.name, Append(player.earnings, newEarningEntry), newTotal)
  ELSE player

\* The callback of players.map in handleAddEarning, applied to one player.
UpdatePlayer(player, selName, amount) ==
  IF player.name = selName
  THEN LET newTotal == Plus(player.totalEarnings, amount)
           newEarningEntry ==
             Earning(TicketLabel(Len(player.earnings) + 1), amount, newTotal, Today)
       IN  Player(player.name, Append(player.earnings, newEarningEntry), newTotal)
  ELSE player

\* updatedPlayers.find(p => p.name === selectedPlayer.name) || null
FindByName(ps, name) ==
  IF \E i \in 1..Len(ps) : ps[i].name = name
  THEN ps[CHOOSE i \in 1..Len(ps) :
            /\ ps[i].name = name
            /\ \A j \in 1..(i - 1) : ps[j].name # name]
  ELSE NULL

\* handleAddEarning dropping the selection when the amount is not a number.
HandleAddEarning_RejectClearsSelection(newEarning) ==
  IF newEarning = <<>> \/ selectedPlayer = NULL
  THEN /\ toast' = Toast("Invalid Input", "destructive")
       /\ UNCHANGED <<players, selectedPlayer, showAllPlayers>>
  ELSE LET amount == parseFloat(newEarning) IN
       IF isNaN(amount)
       THEN /\ toast' = Toast("Invalid Amount", "destructive")
            /\ selectedPlayer' = NULL
            /\ UNCHANGED <<players, showAllPlayers>>
       ELSE LET updatedPlayers ==
                  [i \in 1..Len(players) |->
                     UpdatePlayer(players[i], selectedPlayer.name, amount)]
            IN  /\ Entries(updatedPlayers) <= MaxEntries
                /\ players' = updatedPlayers
                /\ selectedPlayer' = FindByName(updatedPlayers, selectedPlayer.name)
                /\ toast' = Toast(IF Positive(amount) THEN "Winning Added!"
                                                      ELSE "Loss Recorded", "default")
                /\ UNCHANGED showAllPlayers

\* handleAddEarning without the setSelectedPlayer call after setPlayers.
HandleAddEarning_SelectionNotRefreshed(newEarning) ==
  IF newEarning = <<>> \/ selectedPlayer = NULL
  THEN /\ toast' = Toast("Invalid Input", "destructive")
       /\ UNCHANGED <<players, selectedPlayer, showAllPlayers>>
  ELSE LET amount == parseFloat(newEarning) IN
       IF isNaN(amount)
       THEN /\ toast' = Toast("Invalid Amount", "destructive")
            /\ UNCHANGED <<players, selectedPlayer, showAllPlayers>>
       ELSE LET updatedPlayers ==
                  [i \in 1..Len(players) |->
                     UpdatePlayer(players[i], selectedPlayer.name, amount)]
            IN  /\ Entries(updatedPlayers) <= MaxEntries
                /\ players' = updatedPlayers
                /\ toast' = Toast(IF Positive(amount) THEN "Winning Added!"
                                                      ELSE "Loss Recorded", "default")
                /\ UNCHANGED <<selectedPlayer, showAllPlayers>>

\* handleAddEarning, newEarning being the content of the amount field
HandleAddEarning(newEarning) ==
  IF newEarning = <<>> \/ selectedPlayer = NULL
  THEN /\ toast' = Toast("Invalid Input", "destructive")
       /\ UNCHANGED <<players, selectedPlayer, showAllPlayers>>
  ELSE LET amount == parseFloat(newEarning) IN
       IF isNaN(amount)
       THEN /\ toast' = Toast("Invalid Amount", "destructive")
            /\ UNCHANGED <<players, selectedPlayer, showAllPlayers>>
       ELSE LET updatedPlayers ==
                  [i \in 1..Len(players) |->
                     UpdatePlayer(players[i], selectedPlayer.name, amount)]
            IN  /\ Entries(updatedPlayers) <= MaxEntries
                /\ players' = updatedPlayers
                /\ selectedPlayer' = FindByName(updatedPlayers, selectedPlayer.name)
                /\ toast' = Toast(IF Positive(amount) THEN "Winning Added!"
                                                      ELSE "Loss Recorded", "default")
                /\ UNCHANGED showAllPlayers

\* onClick of a player row
SelectPlayer(i) ==
  /\ selectedPlayer' = players[i]
  /\ showAllPlayers' = FALSE
  /\ toast' = NoToast
  /\ UNCHANGED players

\* onClick of the Total Earnings card
ShowAllPlayers ==
  /\ showAllPlayers' = TRUE
  /\ selectedPlayer' = NULL
  /\ toast' = NoToast
  /\ UNCHANGED players

Next ==
  \/ \E s \in NameInputs : HandleAddPlayer(s)
  \/ \E s \in AmountInputs : HandleAddEarning(s)
  \/ \E i \in 1..Len(players) : SelectPlayer(i)
  \/ ShowAllPlayers

Spec == Init /\ [][Next]_vars

(***************************************************************************)
(* Values derived on every render                                          *)
(***************************************************************************)
\* const totalPlayers = players.length
totalPlayers == Len(players)

\* players.filter(player => player.totalEarnings > 0).length
profitablePlayers ==
  Cardinality({i \in 1..Len(players) : Positive(players[i].totalEarnings)})

\* Math.floor in the place of Math.round.
MathRound_Floor(n, d) == n \div d

\* Math.round of the quotient n / d (d > 0): the nearest integer, a half
\* going up.
MathRound(n, d) == (2 * n + d) \div (2 * d)

\* The number on the Win Rate card:
\* totalPlayers > 0 ? Math.round((profitablePlayers / totalPlayers) * 100) : 0
winRate ==
  IF totalPlayers > 0 THEN MathRound(profitablePlayers * 100, totalPlayers) ELSE 0

\* The key under which a chart row keeps its label: { match }
MatchKey == <<"m", "a", "t", "c", "h">>

\* allMatches: every label of every earning of every player
AllMatches(ps) ==
  UNION {{ps[i].earnings[k].match : k \in 1..Len(ps[i].earnings)} : i \in 1..Len(ps)}

\* Array.from(allMatches).sort()
RECURSIVE SortedMatches(_)
SortedMatches(S) ==
  IF S = {} THEN <<>>
  ELSE LET least == CHOOSE x \in S : \A y \in S \ {x} : StrLess(x, y)
       IN  <<least>> \o SortedMatches(S \ {least})

\* player.earnings.find(e => e.match === match), as the value stored in the
\* row: earning ? earning.total : null
TotalAt(player, match) ==
  IF \E k \in 1..Len(player.earnings) : player.earnings[k].match = match
  THEN player.earnings[CHOOSE k \in 1..Len(player.earnings) :
                          /\ player.earnings[k].match = match
                          /\ \A j \in 1..(k - 1) : player.earnings[j].match # match].total
  ELSE NULL

\* dataPoint[key] = value
SetKey(dataPoint, key, value) ==
  [x \in DOMAIN dataPoint \cup {key} |-> IF x = key THEN value ELSE dataPoint[x]]

\* players.forEach(player => dataPoint[player.name] = ...) on one row
RECURSIVE FillRow(_, _, _)
FillRow(dataPoint, ps, match) ==
  IF ps = <<>> THEN dataPoint
  ELSE FillRow(SetKey(dataPoint, Head(ps).name, TotalAt(Head(ps), match)), Tail(ps), match)

\* generateAllPlayersData
generateAllPlayersData ==
  LET sortedMatches == SortedMatches(AllMatches(players))
  IN  [r \in 1..Len(sortedMatches) |->
         FillRow([x \in {MatchKey} |-> sortedMatches[r]], players, sortedMatches[r])]

(***************************************************************************)
(* Properties                                                              *)
(***************************************************************************)
\* The amounts of a sequence of earnings added up from 0, first to last.
RECURSIVE SumAmounts(_)
SumAmounts(es) ==
  IF es = <<>> THEN Zero
  ELSE Plus(SumAmounts(SubSeq(es, 1, Len(es) - 1)), es[Len(es)].amount)

\* The last event was a successful handleAddEarning.
EarningRecorded == toast.title \in {"Winning Added!", "Loss Recorded"}

\* C1: no two players of the roster have names that are equal when letter
\* case is ignored, whatever strings were passed to addPlayer.
C1_NamesUniqueIgnoringCase ==
  \A i, j \in 1..Len(players) :
    i # j => toLowerCase(players[i].name) # toLowerCase(players[j].name)

\* C2: every player's totalEarnings is the sum of the amounts of the
\* player's earnings (0 when there are none).
C2_TotalIsSumOfAmounts ==
  \A i \in 1..Len(players) :
    players[i].totalEarnings = SumAmounts(players[i].earnings)

C2_Witness ==
  \E i \in 1..Len(players) :
    /\ Len(players[i].earnings) >= 2
    /\ players[i].earnings[1].amount # players[i].earnings[2].amount
    /\ players[i].totalEarnings # Zero
    /\ \E j \in 1..Len(players) : players[j].earnings = <<>>

\* C3: the total of the i-th earning of a player is the sum of the amounts
\* of the player's earnings 1..i, that is the total of the earning before it
\* (0 for the first) plus its own amount.
C3_TotalIsPrefixSum ==
  \A i \in 1..Len(players) :
    LET es == players[i].earnings
    IN  \A k \in 1..Len(es) :
          /\ es[k].total = SumAmounts(SubSeq(es, 1, k))
          /\ es[k].total = Plus(IF k = 1 THEN Zero ELSE es[k - 1].total, es[k].amount)

C3_Witness ==
  \E i \in 1..Len(players) :
    /\ Len(players[i].earnings) >= 3
    /\ players[i].earnings[2].total # players[i].earnings[2].amount
    /\ players[i].earnings[3].total # players[i].earnings[2].total

\* The whole of s is a decimal number: an optional sign, then digits with at
\* most one "." among them and at least one digit, and nothing else.
IsDecimalNumber(s) ==
  LET u    == IF s # <<>> /\ Head(s) \in {"+", "-"} THEN Tail(s) ELSE s
      int  == DigitPrefix(u)
      r    == Drop(u, Len(int))
      frac == IF r # <<>> /\ Head(r) = "." THEN DigitPrefix(Tail(r)) ELSE <<>>
  IN  /\ int # <<>> \/ frac # <<>>
      /\ r = <<>> \/ (Head(r) = "." /\ Len(frac) = Len(r) - 1)

\* C4: addEarning with an amount string that is not as a whole a decimal
\* number ("abc", "1.2.3", "1.2abc") is rejected: it raises an error
\* notification and changes no player's earnings or totalEarnings.
C4_MalformedAmountRejected ==
  [][\A s \in AmountInputs :
       (~IsDecimalNumber(s) /\ HandleAddEarning(s))
          => (toast'.variant = "destructive" /\ players' = players)]_vars

\* C5: a rejected addPlayer or addEarning (one that raises an error
\* notification) leaves the roster, every player's earnings and total, the
\* selected player and the view mode as they were.
C5_RejectionChangesNothing ==
  [][toast'.variant = "destructive" => UNCHANGED ledger]_vars

C5_Witness ==
  /\ toast.title \in {"Player Exists", "Invalid Amount"}
  /\ selectedPlayer # NULL
  /\ Entries(players) > 0

\* C6: a successful addEarning appends one earning to exactly one player of
\* the roster, the selected one, and leaves every other player record, the
\* size and the order of the roster as they were.
C6_OnlySelectedPlayerChanges ==
  [][\A s \in AmountInputs :
       (HandleAddEarning(s) /\ toast'.variant = "default")
          => /\ Len(players') = Len(players)
             /\ \E i \in 1..Len(players) :
                  /\ players[i].name = selectedPlayer.name
                  /\ players'[i].name = players[i].name
                  /\ Len(players'[i].earnings) = Len(players[i].earnings) + 1
                  /\ SubSeq(players'[i].earnings, 1, Len(players[i].earnings))
                       = players[i].earnings
                  /\ \A j \in 1..Len(players) : j # i => players'[j] = players[j]]_vars

\* C7: a selected player is always a record of the current roster, and
\* after a successful addEarning the selection keeps its name, is a record
\* of the new roster that the old roster did not hold, and ends with the
\* new earning and its total.
C7_SelectionIsCurrent ==
  /\ [](selectedPlayer # NULL => \E i \in 1..Len(players) : players[i] = selectedPlayer)
  /\ [][EarningRecorded' =>
          \A s \in AmountInputs :
            HandleAddEarning(s)
              => /\ selectedPlayer' # NULL
                 /\ selectedPlayer'.name = selectedPlayer.name
                 /\ \E i \in 1..Len(players') : players'[i] = selectedPlayer'
                 /\ \A i \in 1..Len(players) : players[i] # selectedPlayer'
                 /\ LET es == selectedPlayer'.earnings
                    IN  /\ es # <<>>
                        /\ es[Len(es)].amount = parseFloat(s)
                        /\ es[Len(es)].total = selectedPlayer'.totalEarnings
                        /\ selectedPlayer'.totalEarnings
                             = Plus(FindByName(players, selectedPlayer.name).totalEarnings,
                                    parseFloat(s))]_vars

C7_Witness ==
  /\ EarningRecorded
  /\ selectedPlayer # NULL
  /\ Len(selectedPlayer.earnings) >= 2
  /\ Len(players) >= 2

\* C8: the win rate is 0 for an empty roster and otherwise the integer
\* nearest to 100 * profitable / total, profitable counting the players
\* whose total is above 0; it lies in 0..100 and is 33 for 1 of 3.
C8_WinRate ==
  LET total      == Len(players)
      profitable == Cardinality({i \in 1..total : players[i].totalEarnings.m > 0})
      distance   == winRate * total - 100 * profitable
  IN  /\ winRate \in 0..100
      /\ total = 0 => winRate = 0
      /\ total > 0 => (2 * distance <= total /\ -2 * distance <= total)
      /\ (total = 3 /\ profitable = 1) => winRate = 33

C8_Witness ==
  /\ Len(players) = 3
  /\ winRate = 33
  /\ \E i \in 1..Len(players) :
       players[i].earnings # <<>> /\ players[i].totalEarnings = Zero

\* C9: the chart data has one row per distinct label of the roster's
\* earnings, and in each row the value of each player is the total of that
\* player's earning with the row's label, or null when the player has none.
C9_AllPlayersSeries ==
  LET data == generateAllPlayersData
  IN  /\ Len(data) = Cardinality(AllMatches(players))
      /\ {data[r][MatchKey] : r \in 1..Len(data)} = AllMatches(players)
      /\ \A r \in 1..Len(data) : \A i \in 1..Len(players) :
           LET es == players[i].earnings
           IN  IF \E k \in 1..Len(es) : es[k].match = data[r][MatchKey]
               THEN \E k \in 1..Len(es) :
                      /\ es[k].match = data[r][MatchKey]
                      /\ data[r][players[i].name] = es[k].total
               ELSE data[r][players[i].name] = NULL

\* C10: the k-th earning of every player is labelled "Ticket k", so the
\* labels of one player are distinct and run 1..n.
C10_TicketLabels ==
  \A i \in 1..Len(players) :
    LET es == players[i].earnings
    IN  /\ \A k \in 1..Len(es) :
             es[k].match = <<"T", "i", "c", "k", "e", "t", " ">> \o NumberToString(k)
        /\ \A k, l \in 1..Len(es) : k # l => es[k].match # es[l].match

C10_Witness ==
  \E i, j \in 1..Len(players) :
    /\ i # j
    /\ Len(players[i].earnings) >= 2
    /\ Len(players[j].earnings) >= 1
    /\ players[i].name # players[j].name
    /\ players[i].earnings[1].match = players[j].earnings[1].match

\* C11: the ledger only grows.  In every step no player leaves the roster
\* or changes position, no player's name changes, and the earnings a player
\* had before the step are the first earnings the player has after it.
C11_LedgerOnlyGrows ==
  [][/\ Len(players') >= Len(players)
     /\ \A i \in 1..Len(players) :
          /\ players'[i].name = players[i].name
          /\ Len(players'[i].earnings) >= Len(players[i].earnings)
          /\ SubSeq(players'[i].earnings, 1, Len(players[i].earnings))
               = players[i].earnings]_vars

C11_Witness ==
  /\ showAllPlayers
  /\ Len(players) >= 2
  /\ players[1].name # players[2].name
  /\ Len(players[1].earnings) >= 2
  /\ players[2].earnings # <<>>

====
